---- MODULE Spec2Model ----
(***************************************************************************)
(* SQL -> MongoDB migration tool (src/DB_MIGRATION_TOOL.py).               *)
(*                                                                         *)
(* Two parts are modelled:                                                 *)
(*   - convert_value (lines 210-259), a function of a native value and a   *)
(*     target type, on a universe of tagged values;                        *)
(*   - the migration script body (lines 279-324): the count query, the     *)
(*     paging loop, document construction, BSON validation, the commit     *)
(*     and the progress report, together with the target collection.       *)
(*                                                                         *)
(* Python values are tagged records.  An integer is m * 2^e (TLC integers  *)
(* are 32 bits wide, Python's are unbounded and BSON's are 64 bits wide).  *)
(***************************************************************************)
EXTENDS Integers, Sequences, FiniteSets, TLC

VARIABLES
    \* ---- operator configuration (Streamlit widgets) ----
    db_type,        \* "MySQL" | "MS SQL Server"                  (line 26)
    rename_map,     \* source column -> target field name         (line 191)
    type_map,       \* source column -> target type               (line 196)
    batch_size,     \* rows per page                              (line 274)
    upsert,         \* checkbox                                   (line 275)
    id_field,       \* "(auto)" or a source column                (line 276)
    \* ---- the two stores ----
    table,          \* the source table: a sequence of rows
    coll,           \* the target collection: a set of documents, unique _id
    \* ---- the migration run ----
    pc,             \* "idle" | "paging" | "fetched" | "written" | "done" | "aborted"
    run,            \* how many times "Start Migration" was pressed
    total,          \* COUNT(*) snapshot                          (line 282)
    offset,         \*                                            (line 283)
    processed,      \*                                            (line 283)
    progress,       \* the value handed to progress.progress()    (line 321)
    docs,           \* the last batch's converted documents       (line 296)
    valid_docs,     \* the last batch's encodable documents       (line 304)
    failures,       \* what the run records about dropped documents (309-310)
    reported,       \* "" | "success": st.success at line 324
    error,          \* "" or the exception that ended the script
    \* ---- history of the run (observations, not program state) ----
    fetched,        \* concatenation of the pages fetched by this run
    pages,          \* number of row-carrying pages of this run
    handed,         \* number of documents handed to the sink by this run
    stable,         \* every page query so far answered in table order
    inserted,       \* rows added to the source by other writers
    done_colls,     \* per completed run: its number and the collection then
    \* ---- convert_value applied on its own ----
    cv_value, cv_type, cv_result

vars == <<db_type, rename_map, type_map, batch_size, upsert, id_field, table,
          coll, pc, run, total, offset, processed, progress, docs, valid_docs,
          failures, reported, error, fetched, pages, handed, stable, inserted,
          done_colls, cv_value, cv_type, cv_result>>

(***************************************************************************)
(* Bounds of the model.                                                    *)
(***************************************************************************)
MaxRows == 2
MaxBatch == 2
MaxRuns == 2
MaxInserts == 1

(***************************************************************************)
(* Python / BSON values.                                                   *)
(***************************************************************************)
None == [k |-> "none"]
NaN == [k |-> "nan"]
IntV(m, e) == [k |-> "int", m |-> m, e |-> e]
FloatV(n, d) == [k |-> "float", n |-> n, d |-> d]
StrV(s) == [k |-> "str", s |-> s]
BoolV(b) == [k |-> "bool", b |-> b]
\* datetime.datetime(year, month, day, hour, minute, second, microsecond)
DateTimeV(y, mo, d, h, mi, sec, us) ==
    [k |-> "datetime", y |-> y, mo |-> mo, d |-> d, h |-> h, mi |-> mi,
     sec |-> sec, us |-> us]
ListV(items) == [k |-> "list", items |-> items]
DictV(key, val) == [k |-> "dict", key |-> key, val |-> val]
Decimal128V(text) == [k |-> "decimal128", text |-> text]
\* ObjectId(hex) parsed from a string, or ObjectId() generated at `site`:
\* two generated identifiers are equal only if generated at the same site.
ObjectIdV(hex, site) == [k |-> "objectid", hex |-> hex, site |-> site]
\* numpy array of datetimes (DatetimeIndex.to_pydatetime())
NdArrayV(items) == [k |-> "ndarray", items |-> items]
\* an exception that leaves convert_value
Raise(exc) == [k |-> "raise", exc |-> exc]

\* BSON integers are at most 8 bytes wide.
Int64Bits == 63

RECURSIVE BitLen(_)
BitLen(n) == IF n = 0 THEN 0 ELSE 1 + BitLen(n \div 2)

Abs(n) == IF n < 0 THEN 0 - n ELSE n

\* m * 2^e lies in [-2^63, 2^63 - 1]
FitsInt64(m, e) ==
    \/ m = 0
    \/ BitLen(Abs(m)) + e <= Int64Bits
    \/ m = -1 /\ e = Int64Bits

Digit(d) ==
    CASE d = 0 -> "0" [] d = 1 -> "1" [] d = 2 -> "2" [] d = 3 -> "3"
      [] d = 4 -> "4" [] d = 5 -> "5" [] d = 6 -> "6" [] d = 7 -> "7"
      [] d = 8 -> "8" [] d = 9 -> "9"

RECURSIVE DecStr(_)
DecStr(n) ==
    IF n < 0 THEN "-" \o DecStr(0 - n)
    ELSE IF n < 10 THEN Digit(n)
    ELSE DecStr(n \div 10) \o Digit(n % 10)

\* str() of an int m * 2^e
IntStr(m, e) ==
    CASE e = 0 -> DecStr(m)
      [] m = 1 /\ e = 63 -> "9223372036854775808"

\* str() of a float n/d
FloatStr(n, d) ==
    CASE n = 3 /\ d = 2 -> "1.5"
      [] n = 0 /\ d = 1 -> "0.0"

\* n written with at least w digits
RECURSIVE Pad(_, _)
Pad(n, w) ==
    IF w <= 1 THEN DecStr(n)
    ELSE IF n < 10 THEN "0" \o Pad(n, w - 1)
    ELSE Pad(n \div 10, w - 1) \o Digit(n % 10)

\* str() of a datetime: isoformat(sep=" ")
DateTimeStr(v) ==
    Pad(v.y, 4) \o "-" \o Pad(v.mo, 2) \o "-" \o Pad(v.d, 2) \o " "
    \o Pad(v.h, 2) \o ":" \o Pad(v.mi, 2) \o ":" \o Pad(v.sec, 2)
    \o (IF v.us = 0 THEN "" ELSE "." \o Pad(v.us, 6))

\* repr() of a datetime: trailing zero microsecond and second are left out
DateTimeRepr(v) ==
    "datetime.datetime(" \o DecStr(v.y) \o ", " \o DecStr(v.mo) \o ", "
    \o DecStr(v.d) \o ", " \o DecStr(v.h) \o ", " \o DecStr(v.mi)
    \o (IF v.us # 0 THEN ", " \o DecStr(v.sec) \o ", " \o DecStr(v.us)
        ELSE IF v.sec # 0 THEN ", " \o DecStr(v.sec)
        ELSE "")
    \o ")"

RECURSIVE PyRepr(_)
RECURSIVE ReprJoin(_)
ReprJoin(items) ==
    IF items = <<>> THEN ""
    ELSE IF Len(items) = 1 THEN PyRepr(items[1])
    ELSE PyRepr(items[1]) \o ", " \o ReprJoin(Tail(items))

PyRepr(v) ==
    CASE v.k = "none" -> "None"
      [] v.k = "nan" -> "nan"
      [] v.k = "int" -> IntStr(v.m, v.e)
      [] v.k = "float" -> FloatStr(v.n, v.d)
      [] v.k = "str" -> "'" \o v.s \o "'"
      [] v.k = "bool" -> IF v.b THEN "True" ELSE "False"
      [] v.k = "datetime" -> DateTimeRepr(v)
      [] v.k = "list" -> "[" \o ReprJoin(v.items) \o "]"
      [] v.k = "dict" -> "{'" \o v.key \o "': " \o PyRepr(v.val) \o "}"

\* str(v)
PyStr(v) ==
    CASE v.k = "str" -> v.s
      [] v.k = "datetime" -> DateTimeStr(v)
      [] OTHER -> PyRepr(v)

(***************************************************************************)
(* The text tables: which strings of the universe each parser accepts.     *)
(***************************************************************************)
\* int(s) succeeds
IntLiterals == {"42"}
IntOfText(s) == CASE s = "42" -> 42

\* Decimal128(s) succeeds (and so would float(s))
DecimalLiterals == {"42"}

\* ObjectId(s) succeeds: 24 hexadecimal characters
ObjectIdLiterals == {"ffffffffffffffffffffffff"}

\* pd.to_datetime(s) succeeds
DateLiterals == {"2024-01-15"}
DateOfText(s) == CASE s = "2024-01-15" -> DateTimeV(2024, 1, 15, 0, 0, 0, 0)

\* json.loads(s) succeeds
JsonLiterals == {"42", "[1,2,3]", "{\"k\":1}"}
JsonOfText(s) ==
    CASE s = "42" -> IntV(42, 0)
      [] s = "[1,2,3]" -> ListV(<<IntV(1, 0), IntV(2, 0), IntV(3, 0)>>)
      [] s = "{\"k\":1}" -> DictV("k", IntV(1, 0))

\* s.lower()
PyLower(s) ==
    CASE s = "YES" -> "yes"
      [] OTHER -> s

Texts ==
    {"42", "abc", "YES", "x", "[1,2,3]", "{\"k\":1}", "2024-01-15",
     "not-a-date", "ffffffffffffffffffffffff"}

mongo_type_options ==
    {"string", "int32", "int64", "float", "decimal", "bool", "date",
     "datetime", "array", "dict", "objectid", "null"}

\* the tags convert_value tests for, and one it does not know
TargetTypes == mongo_type_options \cup {"int", "text", "geometry"}

NativeValues ==
    {None, NaN, IntV(0, 0), IntV(5, 0), IntV(1, 63), FloatV(3, 2)}
    \cup {StrV(s) : s \in Texts}
    \cup {DateTimeV(2024, 1, 15, 0, 0, 0, 0), DateTimeV(2024, 1, 15, 9, 5, 7, 0),
          DateTimeV(2024, 1, 15, 0, 0, 0, 250)}
    \cup {ListV(<<IntV(1, 0)>>), ListV(<<None>>),
          ListV(<<IntV(1, 0), IntV(2, 0)>>),
          ListV(<<DateTimeV(2024, 1, 15, 0, 0, 0, 0)>>),
          ListV(<<DateTimeV(2024, 1, 15, 0, 0, 0, 250)>>)}
    \cup {DictV("k", IntV(1, 0)), DictV("k", DateTimeV(2024, 1, 15, 0, 0, 0, 0)),
          DictV("k", DateTimeV(2024, 1, 15, 9, 5, 7, 0))}

(***************************************************************************)
(* convert_value, lines 210-259.                                           *)
(***************************************************************************)
\* The truth value of `pd.isna(v) or v is None` (line 212): pd.isna of a
\* list is an element-wise array, whose truth value is that of its element
\* when it has one and is ambiguous (ValueError) when it has several.  (For
\* an empty list it depends on the numpy version; no input here is one.)
IsnaTruth(v) ==
    CASE v.k \in {"none", "nan"} -> "true"
      [] v.k = "list" /\ Len(v.items) = 1 ->
            IF v.items[1].k \in {"none", "nan"} THEN "true" ELSE "false"
      [] v.k = "list" /\ Len(v.items) # 1 -> "ambiguous"
      [] OTHER -> "false"

\* truncation toward zero of n/d, d > 0
Trunc(n, d) == IF n >= 0 THEN n \div d ELSE 0 - ((0 - n) \div d)

\* int(v), None standing for the exception caught at line 258
PyInt(v) ==
    CASE v.k = "int" -> v
      [] v.k = "float" -> IntV(Trunc(v.n, v.d), 0)
      [] v.k = "bool" -> IntV(IF v.b THEN 1 ELSE 0, 0)
      [] v.k = "str" /\ v.s \in IntLiterals -> IntV(IntOfText(v.s), 0)
      [] OTHER -> None

\* str(v) is a decimal literal
DecimalText(v) ==
    \/ v.k \in {"int", "float"}
    \/ v.k = "str" /\ v.s \in DecimalLiterals

\* lines 217-222: Decimal128(str(v)), else float(v).  float(v) succeeds on
\* numbers and on the decimal literals, all of which Decimal128 took, so in
\* the fallback it raises and line 258 answers None.
PyDecimal(v) ==
    IF DecimalText(v) THEN Decimal128V(PyStr(v))
    ELSE IF v.k = "bool" THEN FloatV(IF v.b THEN 1 ELSE 0, 1)
    ELSE None

\* lines 223-226
PyBool(v) ==
    IF v.k = "int" THEN BoolV(v.m # 0)
    ELSE IF v.k = "float" THEN BoolV(v.n # 0)
    ELSE IF v.k = "bool" THEN v
    ELSE BoolV(PyLower(PyStr(v)) \in {"true", "1", "yes"})

Epoch == DateTimeV(1970, 1, 1, 0, 0, 0, 0)

\* pd.to_datetime(x).to_pydatetime() of a scalar; None for the exception
\* caught at line 232.  A number is nanoseconds since the epoch, and the
\* datetime keeps microseconds.
ScalarToDatetime(x) ==
    CASE x.k = "datetime" -> x
      [] x.k = "int" /\ ~FitsInt64(x.m, x.e) -> None
      [] x.k = "int" /\ x.e = 0 /\ x.m >= 0 /\ x.m < 1000 -> Epoch
      [] x.k = "float" /\ Trunc(x.n, x.d) >= 0 /\ Trunc(x.n, x.d) < 1000 ->
            Epoch
      [] x.k = "str" /\ x.s \in DateLiterals -> DateOfText(x.s)
      [] OTHER -> None

\* lines 227-233: of a list, pd.to_datetime is a DatetimeIndex and
\* to_pydatetime() a numpy array of datetimes
PyDatetime(v) ==
    IF v.k = "datetime" THEN v
    ELSE IF v.k = "list" THEN
        IF \A i \in 1..Len(v.items) : ScalarToDatetime(v.items[i]).k = "datetime"
        THEN NdArrayV([i \in 1..Len(v.items) |-> ScalarToDatetime(v.items[i])])
        ELSE None
    ELSE ScalarToDatetime(v)

\* json.loads(v): the parsed value, or "error" (TypeError for a non-string,
\* JSONDecodeError for a string that is not JSON)
JsonLoads(v) ==
    IF v.k = "str" /\ v.s \in JsonLiterals THEN JsonOfText(v.s)
    ELSE [k |-> "error"]

\* lines 234-241
PyArray(v) ==
    IF v.k = "list" THEN v
    ELSE IF JsonLoads(v).k = "list" THEN JsonLoads(v)
    ELSE ListV(<<v>>)

\* lines 242-249
PyDict(v) ==
    IF v.k = "dict" THEN v
    ELSE IF JsonLoads(v).k = "dict" THEN JsonLoads(v)
    ELSE DictV("value", v)

NoSite == <<>>

\* lines 250-254: ObjectId(str(v)), else a freshly generated ObjectId()
PyObjectId(v, site) ==
    IF v.k = "str" /\ v.s \in ObjectIdLiterals
    THEN ObjectIdV(PyStr(v), NoSite)
    ELSE ObjectIdV("", site)

\* `site` identifies the call, for the ObjectId it may generate
convert_value(v, target_type, site) ==
    IF IsnaTruth(v) = "ambiguous" THEN Raise("ValueError")
    ELSE IF IsnaTruth(v) = "true" THEN None
    ELSE CASE target_type \in {"int", "int32", "int64"} -> PyInt(v)
           [] target_type \in {"float", "decimal"} -> PyDecimal(v)
           [] target_type = "bool" -> PyBool(v)
           [] target_type \in {"date", "datetime"} -> PyDatetime(v)
           [] target_type = "array" -> PyArray(v)
           [] target_type = "dict" -> PyDict(v)
           [] target_type = "objectid" -> PyObjectId(v, site)
           [] target_type \in {"string", "text"} -> StrV(PyStr(v))
           [] OTHER -> None

(***************************************************************************)
(* The source table and the operator's configuration.                      *)
(***************************************************************************)
\* meta_df's columns, in catalog order (lines 155-168)
Columns == <<"id", "v">>
ColumnSet == {Columns[i] : i \in 1..Len(Columns)}

\* what the operator may type into a "Rename" box (line 191)
TargetNames == {"id", "v", "_id", "x"}

\* what the operator may pick as identifier (line 276)
IdFields == {"(auto)", "id"}

\* the types the operator picks in the runs of this model (line 196)
RunTypes == {"int64", "objectid"}

\* cell values: 2^63 does not fit a BSON integer
Rows == [id : {IntV(1, 0), IntV(2, 0)}, v : {IntV(5, 0), IntV(1, 63)}]

Tables == UNION {[1..n -> Rows] : n \in 0..MaxRows}

Min(a, b) == IF a < b THEN a ELSE b

Orders(n) == {f \in [1..n -> 1..n] : \A i, j \in 1..n : f[i] = f[j] => i = j}

TableOrder(n) == [i \in 1..n |-> i]

\* The orders in which the engine may answer the paging query (lines
\* 288-291).  MySQL: LIMIT/OFFSET with no ORDER BY.  MS SQL Server:
\* ORDER BY (SELECT NULL), a constant key.  Neither fixes an order, so
\* the engine is free to answer each query in any order of the rows.
ResultOrders(dbt, n) ==
    IF dbt = "MySQL" THEN Orders(n) ELSE Orders(n)

\* line 292: the rows off+1 .. off+bs of the table as answered in `order`
Page(tbl, order, off, bs) ==
    IF off >= Len(tbl) THEN <<>>
    ELSE [i \in 1..(Min(off + bs, Len(tbl)) - off) |-> tbl[order[off + i]]]

\* line 298: {rename_map[k]: convert_value(v, type_map.get(k, "string"))
\* for k, v in row.items()}: a later column takes the key of an earlier one
MappedDoc(row, pos) ==
    [nm \in {rename_map[c] : c \in ColumnSet} |->
        LET last == CHOOSE i \in 1..Len(Columns) :
                        /\ rename_map[Columns[i]] = nm
                        /\ \A j \in 1..Len(Columns) :
                              rename_map[Columns[j]] = nm => j <= i
        IN  convert_value(row[Columns[last]], type_map[Columns[last]],
                          <<run, pos, Columns[last]>>)]

\* lines 299-300: id_field is looked up among the document's keys
WithId(doc) ==
    IF id_field # "(auto)" /\ id_field \in DOMAIN doc
    THEN [nm \in DOMAIN doc \cup {"_id"} |->
            IF nm = "_id" THEN doc[id_field] ELSE doc[nm]]
    ELSE doc

BuildDoc(row, pos) == WithId(MappedDoc(row, pos))

\* lines 296-301
BuildDocs(df, off) == [i \in 1..Len(df) |-> BuildDoc(df[i], off + i)]

\* bson.encode of a value succeeds
RECURSIVE BsonEncodable(_)
BsonEncodable(v) ==
    CASE v.k = "int" -> FitsInt64(v.m, v.e)
      [] v.k = "list" -> \A i \in 1..Len(v.items) : BsonEncodable(v.items[i])
      [] v.k = "dict" -> BsonEncodable(v.val)
      [] v.k \in {"ndarray", "raise"} -> FALSE
      [] OTHER -> TRUE

\* line 307
DocEncodable(d) == \A nm \in DOMAIN d : BsonEncodable(d[nm])

\* lines 304-310
ValidDocs(ds) == SelectSeq(ds, DocEncodable)

(***************************************************************************)
(* The target collection.                                                  *)
(***************************************************************************)
HasId(d) == "_id" \in DOMAIN d

Ids(c) == {d["_id"] : d \in c}

\* insert_many gives a document without _id a generated ObjectId()
WithMongoId(d, pos) ==
    IF HasId(d) THEN d
    ELSE [nm \in DOMAIN d \cup {"_id"} |->
            IF nm = "_id" THEN ObjectIdV("", <<run, pos, "_id">>) ELSE d[nm]]

\* ReplaceOne({"_id": d["_id"]}, d, upsert=True)
ReplaceOne(c, d) == {x \in c : x["_id"] # d["_id"]} \cup {d}

\* line 315: the operations applied one after the other
RECURSIVE BulkWrite(_, _)
BulkWrite(c, ds) ==
    IF ds = <<>> THEN c ELSE BulkWrite(ReplaceOne(c, Head(ds)), Tail(ds))

\* line 317: insert_many is ordered: it stops at the first duplicate key
\* (BulkWriteError), what was inserted before stays
RECURSIVE InsertMany(_, _, _)
InsertMany(c, ds, pos) ==
    IF ds = <<>> THEN [coll |-> c, ok |-> TRUE]
    ELSE LET d == WithMongoId(Head(ds), pos)
         IN  IF d["_id"] \in Ids(c) THEN [coll |-> c, ok |-> FALSE]
             ELSE InsertMany(c \cup {d}, Tail(ds), pos + 1)

\* line 313
UpsertMode(vd) == upsert /\ HasId(vd[1])

\* line 317: insert_many puts the generated _id into the caller's dicts,
\* all of them before anything is sent; bulk_write leaves them alone
ValidDocsWritten(vd, off) ==
    IF vd = <<>> \/ UpsertMode(vd) THEN vd
    ELSE [i \in 1..Len(vd) |-> WithMongoId(vd[i], off + i)]

\* the dicts of valid_docs are those of docs (line 308): docs after the write
DocsWritten(ds, vd, off) ==
    IF vd = <<>> \/ UpsertMode(vd) THEN ds
    ELSE [i \in 1..Len(ds) |->
            IF DocEncodable(ds[i])
            THEN WithMongoId(ds[i],
                             off + Len(SelectSeq(SubSeq(ds, 1, i), DocEncodable)))
            ELSE ds[i]]

\* the elements of ds at the indices of I, in order
RECURSIVE Pick(_, _, _)
Pick(ds, I, i) ==
    IF i > Len(ds) THEN <<>>
    ELSE IF i \in I THEN <<ds[i]>> \o Pick(ds, I, i + 1)
    ELSE Pick(ds, I, i + 1)

Permuted(ds, order) == [i \in 1..Len(ds) |-> ds[order[i]]]

\* lines 312-317 when the write returns: the collections it may leave.
\* An unordered bulk write may apply its operations in any order.
CommitOk(c, vd, off) ==
    IF vd = <<>> THEN {c}
    ELSE IF UpsertMode(vd)
    THEN {BulkWrite(c, Permuted(vd, o)) : o \in Orders(Len(vd))}
    ELSE IF InsertMany(c, vd, off + 1).ok
    THEN {InsertMany(c, vd, off + 1).coll}
    ELSE {}

\* lines 312-317 when the write raises, with the collection it leaves:
\* a duplicate key in insert_many (BulkWriteError), or the connection
\* dropping (AutoReconnect) with some of the operations applied: any of
\* them for the unordered bulk write, a prefix for the ordered insert
CommitRaises(c, vd, off) ==
    IF vd = <<>> THEN {}
    ELSE IF UpsertMode(vd)
    THEN {[coll |-> BulkWrite(c, Pick(Permuted(vd, o), I, 1)),
           error |-> "AutoReconnect"] :
             o \in Orders(Len(vd)), I \in SUBSET (1..Len(vd))}
    ELSE {[coll |-> InsertMany(c, SubSeq(vd, 1, n), off + 1).coll,
           error |-> "AutoReconnect"] :
             n \in {m \in 0..Len(vd) : InsertMany(c, SubSeq(vd, 1, m), off + 1).ok}}
         \cup {[coll |-> InsertMany(c, vd, off + 1).coll,
                 error |-> "BulkWriteError"] :
                   x \in IF InsertMany(c, vd, off + 1).ok THEN {} ELSE {1}}

\* line 321: min(processed / total, 1.0) as a fraction n/d.  total is a
\* numpy integer: x/0 is inf (clamped to 1.0) and 0/0 is nan, which min
\* returns and progress() rejects (StreamlitAPIException).
ProgressValue(p, t) ==
    IF t = 0 THEN (IF p = 0 THEN [n |-> 0, d |-> 0] ELSE [n |-> 1, d |-> 1])
    ELSE IF p >= t THEN [n |-> 1, d |-> 1]
    ELSE [n |-> p, d |-> t]

ProgressDefined(f) == f.d > 0 /\ 0 <= f.n /\ f.n <= f.d

(***************************************************************************)
(* The state machine.                                                      *)
(***************************************************************************)
Pending == [k |-> "pending"]

IdleRun ==
    /\ pc = "idle" /\ run = 0 /\ total = 0 /\ offset = 0 /\ processed = 0
    /\ progress = [n |-> 0, d |-> 1]
    /\ docs = <<>> /\ valid_docs = <<>> /\ failures = <<>> /\ reported = ""
    /\ error = ""
    /\ fetched = <<>> /\ pages = 0 /\ handed = 0 /\ stable = TRUE
    /\ inserted = 0 /\ done_colls = <<>> /\ coll = {}

Init ==
    /\ db_type \in {"MySQL", "MS SQL Server"}
    /\ rename_map \in [ColumnSet -> TargetNames]
    /\ type_map \in [ColumnSet -> RunTypes]
    /\ batch_size \in 1..MaxBatch
    /\ upsert \in BOOLEAN
    /\ id_field \in IdFields
    /\ table \in Tables
    /\ IdleRun
    /\ cv_value = None /\ cv_type = "null" /\ cv_result = Pending

config == <<db_type, rename_map, type_map, batch_size, upsert, id_field>>
cv == <<cv_value, cv_type, cv_result>>

\* lines 279-285: the button, the count query, the counters
Start ==
    /\ pc \in {"idle", "done", "aborted"}
    /\ run < MaxRuns
    /\ run' = run + 1
    /\ pc' = "paging"
    /\ total' = Len(table)
    /\ offset' = 0 /\ processed' = 0
    /\ progress' = [n |-> 0, d |-> 1]
    /\ docs' = <<>> /\ valid_docs' = <<>> /\ failures' = <<>>
    /\ reported' = "" /\ error' = ""
    /\ fetched' = <<>> /\ pages' = 0 /\ handed' = 0
    /\ UNCHANGED <<config, table, coll, stable, inserted, done_colls, cv>>

\* lines 287-294 and 324: the page is empty, the loop ends
MigrateDone ==
    /\ pc = "paging"
    /\ \A order \in ResultOrders(db_type, Len(table)) :
          Page(table, order, offset, batch_size) = <<>>
    /\ pc' = "done"
    /\ reported' = "success"
    /\ done_colls' = Append(done_colls, [run |-> run, coll |-> coll])
    /\ UNCHANGED <<config, table, coll, run, total, offset, processed,
                   progress, docs, valid_docs, failures, error, fetched,
                   pages, handed, stable, inserted, cv>>

\* lines 287-310: a page with rows is read, its documents are built and
\* validated
MigrateFetch ==
    /\ pc = "paging"
    /\ \E order \in ResultOrders(db_type, Len(table)) :
          /\ Page(table, order, offset, batch_size) # <<>>
          /\ docs' = BuildDocs(Page(table, order, offset, batch_size), offset)
          /\ fetched' = fetched \o Page(table, order, offset, batch_size)
          /\ stable' = (stable /\ order = TableOrder(Len(table)))
    /\ valid_docs' = ValidDocs(docs')
    /\ pages' = pages + 1
    /\ pc' = "fetched"
    /\ UNCHANGED <<config, table, coll, run, total, offset, processed,
                   progress, failures, reported, error, handed, inserted,
                   done_colls, cv>>

\* lines 312-317: the write returns (or there is nothing to write)
MigrateCommit ==
    /\ pc = "fetched"
    /\ coll' \in CommitOk(coll, valid_docs, offset)
    /\ valid_docs' = ValidDocsWritten(valid_docs, offset)
    /\ docs' = DocsWritten(docs, valid_docs, offset)
    /\ handed' = handed + Len(valid_docs)
    /\ pc' = "written"
    /\ UNCHANGED <<config, table, run, total, offset, processed, progress,
                   failures, reported, error, fetched, pages, stable,
                   inserted, done_colls, cv>>

\* a write that raises and is swallowed: the loop goes on
MigrateCommitFailsContinues ==
    /\ pc = "fetched"
    /\ \E r \in CommitRaises(coll, valid_docs, offset) :
          /\ coll' = r.coll
          /\ error' = r.error
    /\ valid_docs' = ValidDocsWritten(valid_docs, offset)
    /\ docs' = DocsWritten(docs, valid_docs, offset)
    /\ handed' = handed + Len(valid_docs)
    /\ pc' = "written"
    /\ UNCHANGED <<config, table, run, total, offset, processed, progress,
                   failures, reported, fetched, pages, stable, inserted,
                   done_colls, cv>>

\* lines 312-317: the write raises; the script ends there
MigrateCommitFails ==
    /\ pc = "fetched"
    /\ \E r \in CommitRaises(coll, valid_docs, offset) :
          /\ coll' = r.coll
          /\ error' = r.error
    /\ valid_docs' = ValidDocsWritten(valid_docs, offset)
    /\ docs' = DocsWritten(docs, valid_docs, offset)
    /\ handed' = handed + Len(valid_docs)
    /\ pc' = "aborted"
    /\ UNCHANGED <<config, table, run, total, offset, processed, progress,
                   failures, reported, fetched, pages, stable, inserted,
                   done_colls, cv>>

\* lines 319-322: the counters and the progress bar, which raises on a
\* value that is not a number in [0, 1]
MigrateProgress ==
    /\ pc = "written"
    /\ offset' = offset + batch_size
    /\ processed' = processed + Len(valid_docs)
    /\ progress' = ProgressValue(processed', total)
    /\ pc' = IF ProgressDefined(progress') THEN "paging" ELSE "aborted"
    /\ error' = IF ProgressDefined(progress') THEN ""
                ELSE "StreamlitAPIException"
    /\ UNCHANGED <<config, table, coll, run, total, docs, valid_docs,
                   failures, reported, fetched, pages, handed, stable,
                   inserted, done_colls, cv>>

Next ==
    Start \/ MigrateFetch \/ MigrateCommit \/ MigrateCommitFails
    \/ MigrateProgress \/ MigrateDone

Spec == Init /\ [][Next]_vars

\* another writer adds a row to the source table while the run goes on
SourceInsert ==
    /\ pc \in {"paging", "fetched", "written"}
    /\ inserted < MaxInserts
    /\ \E r \in Rows : table' = Append(table, r)
    /\ inserted' = inserted + 1
    /\ UNCHANGED <<config, coll, pc, run, total, offset, processed, progress,
                   docs, valid_docs, failures, reported, error, fetched,
                   pages, handed, stable, done_colls, cv>>

\* a single run is watched
FirstStart == run = 0 /\ Start

NextLive ==
    FirstStart \/ MigrateFetch \/ MigrateCommit \/ MigrateCommitFails
    \/ MigrateProgress \/ MigrateDone \/ SourceInsert

\* the runs watched with a live source: columns keep their names
InitLive ==
    /\ db_type \in {"MySQL", "MS SQL Server"}
    /\ rename_map = [c \in ColumnSet |-> c]
    /\ type_map \in [ColumnSet -> RunTypes]
    /\ batch_size \in 1..MaxBatch
    /\ upsert \in BOOLEAN
    /\ id_field \in IdFields
    /\ table \in Tables
    /\ IdleRun
    /\ cv_value = None /\ cv_type = "null" /\ cv_result = Pending

SpecLive == InitLive /\ [][NextLive]_vars

(***************************************************************************)
(* convert_value on its own: every native value with every target type.    *)
(***************************************************************************)
InitConvert ==
    /\ cv_value \in NativeValues
    /\ cv_type \in TargetTypes
    /\ cv_result = Pending
    /\ db_type = "MySQL"
    /\ rename_map = [c \in ColumnSet |-> c]
    /\ type_map = [c \in ColumnSet |-> "int64"]
    /\ batch_size = 1 /\ upsert = TRUE /\ id_field = "(auto)"
    /\ table = <<>>
    /\ IdleRun

Convert ==
    /\ cv_result = Pending
    /\ cv_result' = convert_value(cv_value, cv_type, <<0, 0, "">>)
    /\ UNCHANGED <<config, table, coll, pc, run, total, offset, processed,
                   progress, docs, valid_docs, failures, reported, error,
                   fetched, pages, handed, stable, inserted, done_colls,
                   cv_value, cv_type>>

NextConvert == Convert

SpecConvert == InitConvert /\ [][NextConvert]_vars

(***************************************************************************)
(* The claims.                                                             *)
(***************************************************************************)
CeilDiv(n, b) == (n + b - 1) \div b

AllInt64 == \A c \in ColumnSet : type_map[c] = "int64"

DuplicateTargets ==
    \E c1, c2 \in ColumnSet : c1 # c2 /\ rename_map[c1] = rename_map[c2]

\* the row the i-th document of the last batch was built from, and its
\* position in the run
LastPageRow(i) == fetched[Len(fetched) - Len(docs) + i]
LastPagePos(i) == (pages - 1) * batch_size + i

\* a document without its identifier
Body(d) == [nm \in DOMAIN d \ {"_id"} |-> d[nm]]
Copies(c, b) == Cardinality({d \in c : Body(d) = b})

WriteErrors == {"AutoReconnect", "BulkWriteError"}

\* C1: paging is exhaustive and non-overlapping.  When a run over an
\* unchanged table of N rows is done, it has fetched ceil(N / batch_size)
\* row-carrying pages and their concatenation holds every row of the table
\* exactly once (no row skipped, none fetched twice), for either engine's
\* paging query.  The order of the rows is left aside here: the statement
\* only asks the pages to be some full read of the table.
C1_PagingExhaustive ==
    pc = "done" =>
        /\ pages = CeilDiv(Len(table), batch_size)
        /\ \E o \in Orders(Len(table)) :
              fetched = [i \in 1..Len(table) |-> table[o[i]]]

\* C2: a full successful re-run with upsert and an id_field is idempotent:
\* the collection after the second run is the collection after the first.
\* Stated here for the most favourable runs only: every page answered in
\* table order, identifiers unique in the source, no generated ObjectId,
\* distinct target names.
C2_UpsertRerunIdempotent ==
    ( /\ upsert /\ id_field # "(auto)"
      /\ AllInt64 /\ stable /\ ~DuplicateTargets
      /\ \A i, j \in 1..Len(table) :
            table[i][id_field] = table[j][id_field] => i = j
      /\ Len(done_colls) = 2
      /\ done_colls[1].run = 1 /\ done_colls[2].run = 2 )
    => done_colls[2].coll = done_colls[1].coll

\* C3: with id_field "(auto)" and upsert off, a second full run completes
\* and duplicates every document: twice as many documents, each first-run
\* document with one second-run copy under another identifier.  Stated
\* for mappings with distinct target names that name no field _id and
\* generate no ObjectId, and for second runs whose connection does not drop.
C3_InsertRerunDuplicates ==
    ( /\ ~upsert /\ id_field = "(auto)"
      /\ AllInt64 /\ ~DuplicateTargets /\ \A c \in ColumnSet : rename_map[c] # "_id"
      /\ run = 2 /\ pc \in {"done", "aborted"} /\ error # "AutoReconnect"
      /\ Len(done_colls) >= 1 /\ done_colls[1].run = 1 )
    => /\ pc = "done"
       /\ Cardinality(coll) = 2 * Cardinality(done_colls[1].coll)
       /\ \A d \in done_colls[1].coll :
             /\ d \in coll
             /\ Copies(coll \ done_colls[1].coll, Body(d))
                    = Copies(done_colls[1].coll, Body(d))

\* C4: a document that fails BSON encoding never reaches the sink and never
\* aborts the batch.  In every loop iteration over N documents of which k
\* fail to encode, exactly the N - k encodable ones, in order, go to the
\* commit; whatever the commit adds to the collection is one of them; when
\* the write returns all of them are in the collection and the run goes on
\* to the next page; the run ends only when the write itself raises.
\* The source table may gain rows while the run goes on.
C4_EncodingFailuresDropped ==
    [][ /\ (pc = "paging" /\ pc' = "fetched") =>
              /\ valid_docs' = SelectSeq(docs', DocEncodable)
              /\ Len(valid_docs') = Len(docs')
                    - Cardinality({i \in 1..Len(docs') :
                                      ~DocEncodable(docs'[i])})
              /\ coll' = coll
        /\ (pc = "fetched" /\ pc' # "fetched") =>
              /\ Len(valid_docs') = Len(valid_docs)
              /\ \A i \in 1..Len(valid_docs) :
                    Body(valid_docs'[i]) = Body(valid_docs[i])
              /\ \A d \in coll' : DocEncodable(d)
              /\ \A d \in coll' \ coll :
                    \E i \in 1..Len(valid_docs') : d = valid_docs'[i]
              /\ pc' = "written" =>
                    \A i \in 1..Len(valid_docs') :
                        valid_docs'[i]["_id"] \in Ids(coll')
              /\ pc' # "written" =>
                    (pc' = "aborted" /\ error' \in WriteErrors)
              /\ valid_docs = <<>> => (pc' = "written" /\ coll' = coll)
        /\ (pc = "written" /\ pc' # "written") =>
              (pc' = "paging" /\ coll' = coll)
      ]_vars

\* C5: every encoding failure is recorded: when the run is done, failures
\* holds one entry per document that failed to encode, with its row index,
\* in processing order.
FailedRows ==
    SelectSeq([i \in 1..Len(fetched) |-> i],
              LAMBDA i : ~DocEncodable(BuildDoc(fetched[i], i)))

C5_FailuresRecorded ==
    pc = "done" =>
        /\ Len(failures) = Len(FailedRows)
        /\ \A j \in 1..Len(failures) : failures[j].row_index = FailedRows[j]

\* C6: a commit failure is fatal and rolls nothing back.  The iteration
\* whose write raises ends the run in "aborted": success is not reported,
\* offset and processed stay, and every document that was in the
\* collection is still there (or, in a bulk replace that was applied in
\* part, was replaced under its own identifier by a document of this very
\* batch).  An aborted run fetches and commits nothing more.
C6_CommitFailureFatal ==
    [][ /\ (pc = "fetched" /\ error' \in WriteErrors) =>
              /\ pc' = "aborted"
              /\ reported' = ""
              /\ offset' = offset /\ processed' = processed
              /\ \A d \in coll :
                    \/ d \in coll'
                    \/ /\ UpsertMode(valid_docs)
                       /\ \E i \in 1..Len(valid_docs) :
                             /\ valid_docs[i] \in coll'
                             /\ valid_docs[i]["_id"] = d["_id"]
        /\ (pc = "aborted" /\ run' = run) =>
              /\ pc' = "aborted" /\ reported' = ""
              /\ coll' = coll /\ fetched' = fetched /\ pages' = pages
      ]_vars

\* C6 as it is worded: when the write of batch i of a first run (the
\* collection was empty before it) with every page answered in table order
\* raises, the run is aborted without a success report and every document
\* the earlier batches left in the collection is still in it.
C6_PriorBatchesRemain ==
    [][ (run = 1 /\ stable /\ pc = "fetched" /\ error' \in WriteErrors) =>
              /\ pc' = "aborted"
              /\ reported' = ""
              /\ \A d \in coll : d \in coll'
      ]_vars

\* the second batch's write failed; the first batch's documents are there
C6_Witness ==
    /\ pc = "aborted" /\ error = "AutoReconnect"
    /\ offset > 0 /\ pages >= 2
    /\ coll # {} /\ reported = ""

\* C7: two columns renamed to the same target name are a configuration
\* error raised before any row is read, with nothing committed; otherwise
\* every document has one field per column.
C7_DuplicateTargetsRejected ==
    /\ (DuplicateTargets /\ run >= 1) =>
          (pc = "aborted" /\ fetched = <<>> /\ coll = {})
    /\ ~DuplicateTargets =>
          /\ Cardinality({rename_map[c] : c \in ColumnSet}) = Len(Columns)
          /\ \A i \in 1..Len(docs) :
                DOMAIN docs[i] \ {"_id"}
                    = {rename_map[c] : c \in ColumnSet} \ {"_id"}

\* the representation of a target type
WellTyped(r, t) ==
    CASE t \in {"int", "int32", "int64"} -> r.k = "int"
      [] t \in {"float", "decimal"} -> r.k \in {"decimal128", "float"}
      [] t = "bool" -> r.k = "bool"
      [] t \in {"date", "datetime"} -> r.k = "datetime"
      [] t = "array" -> r.k = "list"
      [] t = "dict" -> r.k = "dict"
      [] t = "objectid" -> r.k = "objectid"
      [] t \in {"string", "text"} -> r.k = "str"
      [] OTHER -> FALSE

\* C8: convert is total and null-preserving: for every native value and
\* every target type it raises nothing and returns a value of the type's
\* representation or null, and null converts to null.
C8_ConvertTotal ==
    cv_result # Pending =>
        /\ cv_result.k # "raise"
        /\ cv_result = None \/ WellTyped(cv_result, cv_type)
        /\ cv_value = None => cv_result = None

\* C9: when id_field names a source column, every converted document's _id
\* is the converted value of that column, whatever the column was renamed
\* to; when id_field is "(auto)" the executor sets no identifier.  Stated
\* for the documents as they are built and validated, before the write,
\* and for mappings with distinct target names.
C9_IdentifierFromIdField ==
    (pc = "fetched" /\ ~DuplicateTargets) => \A i \in 1..Len(docs) :
        /\ id_field # "(auto)" =>
              /\ HasId(docs[i])
              /\ docs[i]["_id"] =
                    convert_value(LastPageRow(i)[id_field], type_map[id_field],
                                  <<run, LastPagePos(i), id_field>>)
        /\ id_field = "(auto)" =>
              docs[i] = MappedDoc(LastPageRow(i), LastPagePos(i))

\* C10: after every committed batch offset is batch_size times the number
\* of batches, processed is the number of documents handed to the sink,
\* and the progress reported is defined and within [0, 1], also when the
\* count snapshot is 0 or stale.
C10_Bookkeeping ==
    /\ pc \in {"paging", "done"} =>
          /\ offset = batch_size * pages
          /\ processed = handed
    /\ ProgressDefined(progress)

====
